---- MODULE Spec2Model ----
(***************************************************************************)
(* Packet ingestion and decoding pipeline of the sniffer dashboard.        *)
(*                                                                         *)
(*   Spec      the App component (schema registry, live stream, batch      *)
(*             import, schema rebuild, startup restore, clear)             *)
(*   SpecSession  the App without clear-all and reload                     *)
(*   SpecSchema   schema uploads and the mount rebuild beside the stream   *)
(*   SpecStream   the live stream and PcapUploadModal.processFiles         *)
(*   SpecImport   one JsonUploadModal.processFiles call for every file     *)
(*                selection, beside the stream                             *)
(*   SpecNorm     decoding of one record by the stream and by the import   *)
(*   SpecSub      the subscription: status check, connect, stop, error     *)
(*   SpecBuffer   the write buffer of packetStorage.ts around its          *)
(*                threshold, with a fair timer and fair transactions       *)
(*   SpecPersist  stream, batch import, schema rebuild and clear beside    *)
(*                the object store                                         *)
(*   SpecViz   the PacketVisualizer component (envelope expansion of       *)
(*             UnionCmdNotify in listenPcapEventStream)                    *)
(*   SpecScan  rebuildFromProto as a function of the schema text           *)
(*                                                                         *)
(* Texts are sequences of classified lines, payload texts are tagged       *)
(* records, a protobuf root is the set of message names it declares.       *)
(***************************************************************************)
EXTENDS Integers, Sequences, FiniteSets, TLC

VARIABLES
    \* ---- App ----
    packets,                 \* React state `packets` (latest value set)
    globalPacketIndexRef,    \* globalPacketIndexRef.current
    protoRootRef,            \* protoRootRef.current: the message names of the root
    cmdIdToMessageMap,       \* React state `cmdIdToMessageMap` (latest value set)
    cmdIdToMessageMapRef,    \* cmdIdToMessageMapRef.current (set by the effect)
    protoFileContent,        \* localStorage["protoFileContent"]
    eventSourceRef,          \* "open" when eventSourceRef.current is an open stream
    openSources,             \* the EventSource objects created and not closed
    isMonitoring,            \* React state `isMonitoring`
    boot,                    \* position of the mount effects / async init()
    protoJob,                \* a ProtoUploadModal.processFiles call in flight
    jsonJob,                 \* a JsonUploadModal.processFiles call in flight
    lastResult,              \* what the last rebuildFromProto / handleUpload returned,
                             \* or the alert shown since
    \* ---- PacketVisualizer ----
    vizRoot,                 \* `root` of the render whose listener is subscribed
    vizMap,                  \* cmdIdToMessageMap object (mutated in place)
    vizIndex,                \* globalPacketIndex
    vizPushed,               \* the packets handed to push(), in order
    vizRender,               \* "none" before mount, "first", "later" after a re-render
    vizSavedProto,           \* localStorage["protoFileContent"] of the visualizer
    \* ---- rebuildFromProto as a function ----
    scanText,
    scanResult,
    \* ---- results shown by the upload modals, PcapUploadModal ----
    jsonResult,              \* React state `uploadResult` of JsonUploadModal
    pcapJob,                 \* a PcapUploadModal.processFiles call in flight
    pcapResult,              \* React state `uploadResult` of PcapUploadModal
    \* ---- packetStorage.ts and the IndexedDB object store ----
    writeBuffer,             \* `writeBuffer`
    flushTimer,              \* TRUE while `flushTimer` holds a pending timeout
    idbQueue,                \* readwrite transactions created and not complete
    idbStore                 \* the records of the object store "packets"

appVars == <<packets, globalPacketIndexRef, protoRootRef, cmdIdToMessageMap,
             cmdIdToMessageMapRef, protoFileContent, eventSourceRef, openSources,
             isMonitoring, boot, protoJob, jsonJob, lastResult>>
vizVars == <<vizRoot, vizMap, vizIndex, vizPushed, vizRender,
             vizSavedProto>>
scanVars == <<scanText, scanResult>>
modalVars == <<jsonResult, pcapJob, pcapResult>>
storeVars == <<writeBuffer, flushTimer, idbQueue, idbStore>>
vars == <<appVars, vizVars, scanVars, modalVars, storeVars>>

-----------------------------------------------------------------------------
\* Bounds of the model.
MaxLines == 4        \* lines of a schema text in SpecScan
MaxPackets == 2      \* the live stream appends while the collection is shorter
MaxBatch == 1        \* records of one batch import
MaxIndex == 3        \* the live stream allocates while the counter is below
MaxVizIndex == 3     \* the visualizer handles events while its counter is below
MaxFiles == 2        \* capture files of one PcapUploadModal upload
MaxPending == 2      \* transactions of the object store created and not complete
MaxBurst == 3        \* SpecBuffer: events before and after the buffer fills
MaxCmds == 3         \* inner commands of one envelope
NormLen == 2         \* records normalised one after another in SpecNorm

\* JavaScript `undefined` for a string-valued field.
NoVal == "undefined"

-----------------------------------------------------------------------------
\* Schema text: a sequence of lines, each classified by what the two
\* regular expressions of rebuildFromProto and the protobuf parser see in it.
CmdLine(n) == [kind |-> "cmd", id |-> n, name |-> ""]
MsgLine(s) == [kind |-> "msg", id |-> 0, name |-> s]
BlankLine == [kind |-> "blank", id |-> 0, name |-> ""]
CommentLine == [kind |-> "comment", id |-> 0, name |-> ""]
BadLine == [kind |-> "bad", id |-> 0, name |-> ""]

NoPending == -1
EmptyMap == [x \in {} |-> ""]

MapPut(map, k, v) ==
    [x \in (DOMAIN map) \cup {k} |-> IF x = k THEN v ELSE map[x]]

MsgNames(lines) ==
    {lines[i].name : i \in {j \in 1..Len(lines) : lines[j].kind = "msg"}}

\* protobuf.parse(protoText) throws on a syntax error and on a message name
\* declared twice in the same namespace.
ParseOK(lines) ==
    /\ \A i \in 1..Len(lines) : lines[i].kind # "bad"
    /\ \A i, j \in 1..Len(lines) :
          (i # j /\ lines[i].kind = "msg" /\ lines[j].kind = "msg")
              => lines[i].name # lines[j].name

\* A scan that forgets the pending id on every line that matches neither
\* regular expression.
RECURSIVE ScanStrict(_, _, _, _)
ScanStrict(lines, i, pendingCmdId, newMap) ==
    IF i > Len(lines) THEN newMap
    ELSE IF lines[i].kind = "cmd"
         THEN ScanStrict(lines, i + 1, lines[i].id, newMap)
         ELSE IF lines[i].kind = "msg" /\ pendingCmdId # NoPending
              THEN ScanStrict(lines, i + 1, NoPending,
                              MapPut(newMap, pendingCmdId, lines[i].name))
              ELSE ScanStrict(lines, i + 1,
                              IF lines[i].kind = "blank" THEN pendingCmdId
                                                         ELSE NoPending,
                              newMap)

\* A scan that keeps the first name associated with an id.
RECURSIVE ScanFirstWins(_, _, _, _)
ScanFirstWins(lines, i, pendingCmdId, newMap) ==
    IF i > Len(lines) THEN newMap
    ELSE IF lines[i].kind = "cmd"
         THEN ScanFirstWins(lines, i + 1, lines[i].id, newMap)
         ELSE IF lines[i].kind = "msg" /\ pendingCmdId # NoPending
              THEN ScanFirstWins(lines, i + 1, NoPending,
                                 IF pendingCmdId \in DOMAIN newMap THEN newMap
                                 ELSE MapPut(newMap, pendingCmdId, lines[i].name))
              ELSE ScanFirstWins(lines, i + 1, pendingCmdId, newMap)

\* The line loop of rebuildFromProto, from line i on.
RECURSIVE ScanCmdIds(_, _, _, _)
ScanCmdIds(lines, i, pendingCmdId, newMap) ==
    IF i > Len(lines) THEN newMap
    ELSE IF lines[i].kind = "cmd"
         THEN ScanCmdIds(lines, i + 1, lines[i].id, newMap)
         ELSE IF lines[i].kind = "msg" /\ pendingCmdId # NoPending
              THEN ScanCmdIds(lines, i + 1, NoPending,
                              MapPut(newMap, pendingCmdId, lines[i].name))
              ELSE ScanCmdIds(lines, i + 1, pendingCmdId, newMap)

\* What rebuildFromProto computes from the text alone: the parse, the new
\* root, the new command-id map and the returned record.
BuildFromProto(protoText) ==
    IF ~ParseOK(protoText)
    THEN [success |-> FALSE, mappingCount |-> 0, error |-> "parse error",
          root |-> {}, map |-> EmptyMap]
    ELSE LET newMap == ScanCmdIds(protoText, 1, NoPending, EmptyMap)
         IN [success |-> TRUE, mappingCount |-> Cardinality(DOMAIN newMap),
             error |-> NoVal, root |-> MsgNames(protoText), map |-> newMap]

-----------------------------------------------------------------------------
\* SpecScan: rebuildFromProto applied to every text of at most MaxLines lines.
ScanLines ==
    {CmdLine(7), CmdLine(8), MsgLine("Ping"), MsgLine("Pong"),
     BlankLine, CommentLine, BadLine}

ScanTexts == UNION {[1..n -> ScanLines] : n \in 0..MaxLines}

NoProtoJob == [active |-> FALSE, packets |-> <<>>]
NoJsonJob == [active |-> FALSE, map |-> EmptyMap, files |-> <<>>]
NoJsonResult == [successCount |-> 0, errorCount |-> 0, packetCount |-> 0]
NoResult == [op |-> "none", success |-> FALSE, count |-> 0, error |-> NoVal]

NotBuilt ==
    [done |-> FALSE, success |-> FALSE, mappingCount |-> 0, error |-> NoVal,
     root |-> {}, map |-> EmptyMap]

\* The App right after construction, local storage aside.
AppFresh ==
    /\ packets = <<>>
    /\ globalPacketIndexRef = 0
    /\ protoRootRef = {}
    /\ cmdIdToMessageMap = EmptyMap
    /\ cmdIdToMessageMapRef = EmptyMap
    /\ eventSourceRef = "null"
    /\ openSources = 0
    /\ isMonitoring = FALSE
    /\ boot = "mount"
    /\ protoJob = NoProtoJob
    /\ jsonJob = NoJsonJob
    /\ lastResult = NoResult

AppIdle ==
    /\ AppFresh
    /\ protoFileContent = <<>>

VizIdle ==
    /\ vizRoot = {}
    /\ vizMap = EmptyMap
    /\ vizIndex = 0
    /\ vizPushed = <<>>
    /\ vizRender = "none"
    /\ vizSavedProto = <<>>

ScanIdle ==
    /\ scanText = <<>>
    /\ scanResult = NotBuilt

\* No capture upload running, no result shown by a modal.
NoPcapJob == [active |-> FALSE, sent |-> 0, left |-> 0, successCount |-> 0,
              errorCount |-> 0]
NoPcapResult == [successCount |-> 0, errorCount |-> 0, error |-> NoVal]

ModalsIdle ==
    /\ jsonResult = NoJsonResult
    /\ pcapJob = NoPcapJob
    /\ pcapResult = NoPcapResult

\* Nothing buffered, no transaction running.
BufferIdle ==
    /\ writeBuffer = <<>>
    /\ flushTimer = FALSE
    /\ idbQueue = <<>>

StoreIdle ==
    /\ BufferIdle
    /\ idbStore = {}

ScanInit ==
    /\ scanText \in ScanTexts
    /\ scanResult = NotBuilt
    /\ AppIdle
    /\ VizIdle
    /\ ModalsIdle
    /\ StoreIdle

ScanBuild ==
    /\ ~scanResult.done
    /\ scanResult' = [done |-> TRUE] @@ BuildFromProto(scanText)
    /\ UNCHANGED <<scanText, appVars, vizVars, modalVars, storeVars>>

ScanNext == ScanBuild

SpecScan == ScanInit /\ [][ScanNext]_vars

\* The association the text declares: a message line receives the id of the
\* nearest CmdId comment before it, provided no other message line lies
\* between the two; for an id associated several times the last one stands.
LastCmdBefore(lines, j) ==
    LET cmds == {i \in 1..(j - 1) : lines[i].kind = "cmd"}
    IN IF cmds = {} THEN 0 ELSE CHOOSE i \in cmds : \A k \in cmds : k <= i

Associated(lines, j) ==
    /\ lines[j].kind = "msg"
    /\ LastCmdBefore(lines, j) > 0
    /\ \A k \in (LastCmdBefore(lines, j) + 1)..(j - 1) : lines[k].kind # "msg"

DeclaredMap(lines) ==
    LET assoc == {j \in 1..Len(lines) : Associated(lines, j)}
        idOf(j) == lines[LastCmdBefore(lines, j)].id
        lastOf(n) == CHOOSE j \in assoc :
                        /\ idOf(j) = n
                        /\ \A k \in assoc : idOf(k) = n => k <= j
    IN [n \in {idOf(j) : j \in assoc} |-> lines[lastOf(n)].name]

\* C9 (as amended): the scan associates a CmdId comment with the next message
\* declaration after it, however many lines that match neither pattern lie
\* between them; only a later CmdId comment or that message ends the pending id.
C9_PendingIdKeptUntilNextMessage ==
    (scanResult.done /\ scanResult.success)
        => scanResult.map = DeclaredMap(scanText)

\* C9 (as claimed): an id is associated with a message only when nothing but
\* blank lines separates the CmdId comment from the message declaration.
C9_OnlyImmediatelyFollowing ==
    (scanResult.done /\ scanResult.success) =>
        \A n \in DOMAIN scanResult.map :
            \E i, j \in 1..Len(scanText) :
                /\ i < j
                /\ scanText[i] = CmdLine(n)
                /\ scanText[j] = MsgLine(scanResult.map[n])
                /\ \A k \in (i + 1)..(j - 1) : scanText[k].kind = "blank"

\* A built text in which a comment separates the CmdId line from the message
\* that received its id.
C9_Witness ==
    /\ scanResult.done /\ scanResult.success
    /\ \E i, j \in 1..Len(scanText) :
          /\ i + 1 < j
          /\ scanText[i].kind = "cmd"
          /\ scanText[j].kind = "msg"
          /\ \A k \in (i + 1)..(j - 1) : scanText[k].kind = "comment"
          /\ scanText[i].id \in DOMAIN scanResult.map
          /\ scanResult.map[scanText[i].id] = scanText[j].name

\* The message lines that receive an id, and the id each receives.
AssociatedLines(lines) == {j \in 1..Len(lines) : Associated(lines, j)}
AssociatedId(lines, j) == lines[LastCmdBefore(lines, j)].id

\* C21 (as amended): of several associations for the same command id the last
\* one in text order gives the name; the map holds the ids associated in this
\* text and no other; mappingCount is the number of distinct ids associated,
\* that is, the number of entries of the map.
C21_LastAssociationWins ==
    (scanResult.done /\ scanResult.success) =>
        LET assoc == AssociatedLines(scanText)
        IN /\ DOMAIN scanResult.map = {AssociatedId(scanText, j) : j \in assoc}
           /\ \A j \in assoc :
                 (\A k \in assoc :
                     AssociatedId(scanText, k) = AssociatedId(scanText, j) => k <= j)
                     => scanResult.map[AssociatedId(scanText, j)] = scanText[j].name
           /\ scanResult.mappingCount =
                 Cardinality({AssociatedId(scanText, j) : j \in assoc})

\* C21 (as claimed): mappingCount is the number of id associations found in
\* the text, an id associated twice counting twice.
C21_CountsEveryAssociation ==
    (scanResult.done /\ scanResult.success) =>
        scanResult.mappingCount = Cardinality(AssociatedLines(scanText))

\* A built text that associates the same id with two messages.
C21_Witness ==
    /\ scanResult.done /\ scanResult.success
    /\ \E j, k \in AssociatedLines(scanText) :
          /\ j < k
          /\ AssociatedId(scanText, j) = AssociatedId(scanText, k)
          /\ scanText[j].name # scanText[k].name
          /\ scanResult.map[AssociatedId(scanText, k)] = scanText[k].name

-----------------------------------------------------------------------------
\* Payload texts.  A string handed through, the JSON.stringify of an inline
\* object and the JSON.stringify of a decoded message are different texts.
EmptyText == [k |-> "empty", a |-> "", b |-> ""]
InlineText(v) == [k |-> "str", a |-> v, b |-> ""]
Stringified(v) == [k |-> "json", a |-> v, b |-> ""]
Decoded(name, bin) == [k |-> "decoded", a |-> name, b |-> bin]

\* The `data` field of a raw record: absent (or ""), a string, an object.
NoData == [t |-> "none", v |-> ""]
StrData(v) == [t |-> "str", v |-> v]
ObjData(v) == [t |-> "obj", v |-> v]

Raw(id, name, data, bin, src) ==
    [packetId |-> id, packetName |-> name, data |-> data, binary |-> bin,
     source |-> src]

\* `if (x.data) { typeof x.data === 'string' ? x.data : JSON.stringify(x.data) }`
FallbackText(d) ==
    IF d.t = "none" THEN EmptyText
    ELSE IF d.t = "str" THEN InlineText(d.v) ELSE Stringified(d.v)

\* A decoder that never fails once a name is resolved.
CanDecodeNoCheck(root, protoName, bin) ==
    /\ protoName # NoVal
    /\ bin # NoVal

\* atob, lookupType and decode all succeed: the bytes are well formed and the
\* root declares the type.
CanDecode(root, protoName, bin) ==
    /\ protoName # NoVal
    /\ bin # NoVal
    /\ protoName \in root
    /\ bin # "bad"

Lookup(map, id) == IF id \in DOMAIN map THEN map[id] ELSE NoVal

DirectionOf(src) == IF src = "client" THEN "CLIENT" ELSE "SERVER"

\* `source?.toUpperCase()` throws when source is present and not a string.
SourceThrows(raw) == raw.source = "malformed"

\* The name the packetNotify listener resolves: registry first, then the hint.
ListenerProtoName(map, raw) ==
    IF Lookup(map, raw.packetId) # NoVal THEN Lookup(map, raw.packetId)
    ELSE raw.packetName

\* The name handleUpload resolves: the hint first, then the registry.
UploadProtoName(map, raw) ==
    IF raw.packetName # NoVal THEN raw.packetName
    ELSE Lookup(map, raw.packetId)

\* newPacket of the packetNotify listener.
ListenerPacket(raw, currentIndex, root, map) ==
    LET protoName == ListenerProtoName(map, raw)
        decodedSuccess == CanDecode(root, protoName, raw.binary)
    IN [index |-> currentIndex,
        id |-> raw.packetId,
        packetName |-> IF protoName # NoVal THEN protoName ELSE "Unknown",
        data |-> IF decodedSuccess THEN Decoded(protoName, raw.binary)
                 ELSE FallbackText(raw.data),
        binary |-> raw.binary,
        dataSource |-> IF decodedSuccess THEN "BINARY" ELSE "JSON",
        source |-> DirectionOf(raw.source)]

\* One element of mappedPackets in handleUpload.
UploadPacket(item, index, root, map) ==
    LET protoName == UploadProtoName(map, item)
        decoded == CanDecode(root, protoName, item.binary)
    IN [index |-> index,
        id |-> item.packetId,
        packetName |-> item.packetName,
        data |-> IF decoded THEN Decoded(protoName, item.binary)
                 ELSE FallbackText(item.data),
        binary |-> item.binary,
        dataSource |-> IF decoded THEN "BINARY" ELSE "JSON",
        source |-> DirectionOf(item.source)]

\* One element of updatedPackets in rebuildFromProto.
Redecode(packet, newMap, newRoot) ==
    LET protoName == Lookup(newMap, packet.id)
    IN IF protoName # NoVal /\ packet.binary # NoVal
       THEN IF CanDecode(newRoot, protoName, packet.binary)
            THEN [packet EXCEPT !.packetName = protoName,
                                !.data = Decoded(protoName, packet.binary),
                                !.dataSource = "BINARY"]
            ELSE [packet EXCEPT !.packetName = protoName]
       ELSE IF protoName # NoVal
            THEN [packet EXCEPT !.packetName = protoName]
            ELSE packet

RedecodeAll(pkts, newMap, newRoot) ==
    [i \in 1..Len(pkts) |-> Redecode(pkts[i], newMap, newRoot)]

-----------------------------------------------------------------------------
\* Inputs of the App model.
FileA == <<CmdLine(7), MsgLine("Ping")>>
FileB == <<CmdLine(7), MsgLine("Ping"), MsgLine("Pong")>>
FileBad == <<BadLine>>

\* The file selections a schema upload is tried with.
Selections == {<<FileA>>, <<FileA, FileB>>, <<FileBad>>}

\* combinedProtoText: for every file that validates, "\n// File: <name>\n"
\* followed by its text and "\n".
RECURSIVE CombineFrom(_, _)
CombineFrom(files, i) ==
    IF i > Len(files) THEN <<BlankLine>>
    ELSE IF ParseOK(files[i])
         THEN <<BlankLine, CommentLine>> \o files[i] \o CombineFrom(files, i + 1)
         ELSE CombineFrom(files, i + 1)

Combine(files) == CombineFrom(files, 1)

SuccessCount(files) ==
    Cardinality({i \in 1..Len(files) : ParseOK(files[i])})

SR1 == Raw(7, NoVal, NoData, "b1", "server")
SR2 == Raw(7, "Pong", StrData("x"), "b1", "client")
SR3 == Raw(8, NoVal, StrData("x"), "b1", "malformed")

StreamRecords == {SR1}
BatchRecords == {SR2, SR3}
Batches == UNION {[1..n -> BatchRecords] : n \in 0..MaxBatch}

\* A file of a batch import: validateJsonFile accepts it when its text parses
\* to an array, which is then its data.
JsonFile(data) == [ok |-> TRUE, data |-> data]
BadJson == [ok |-> FALSE, data |-> <<>>]

\* combinedData after the loop of processFiles, from file i on.
RECURSIVE CombinedFrom(_, _)
CombinedFrom(files, i) ==
    IF i > Len(files) THEN <<>>
    ELSE IF files[i].ok
         THEN files[i].data \o CombinedFrom(files, i + 1)
         ELSE CombinedFrom(files, i + 1)

\* A loop that gives up the data of all files when one of them is rejected.
CombinedAllOrNothing(files) ==
    IF \E i \in 1..Len(files) : ~files[i].ok THEN <<>>
    ELSE CombinedFrom(files, 1)

CombinedData(files) == CombinedFrom(files, 1)

\* results.successCount after the loop of processFiles.
JsonSuccessCount(files) ==
    Cardinality({i \in 1..Len(files) : files[i].ok})

\* What loadAllPackets may find in the store: nothing, or packets of an
\* earlier session sorted by their unique index.
StoredSamples == {<<>>, <<ListenerPacket(SR1, 1, {}, EmptyMap)>>}

\* stored.reduce((max, p) => Math.max(max, p.index), 0)
MaxStoredIndex(stored) ==
    LET s == {0} \cup {stored[i].index : i \in 1..Len(stored)}
    IN CHOOSE m \in s : \A n \in s : n <= m

EffectsCommitted == cmdIdToMessageMapRef = cmdIdToMessageMap

-----------------------------------------------------------------------------
\* packetStorage.ts.  A readwrite transaction on the object store is a record:
\* what it does to the store, and what the code awaiting it calls when it
\* completes (`next`: nothing, clearAllPackets, or savePackets(nextBatch)).
\* Transactions on one store complete in the order of their creation.
FlushThreshold == 50

PutTx(batch) == [op |-> "put", batch |-> batch, next |-> "none", nextBatch |-> <<>>]
ClearTx == [op |-> "clear", batch |-> <<>>, next |-> "none", nextBatch |-> <<>>]
\* flushWriteBuffer() awaited, then clearAllPackets()
PutThenClearTx(batch) ==
    [op |-> "put", batch |-> batch, next |-> "clear", nextBatch |-> <<>>]
\* clearAllPackets().then(() => savePackets(batch))
ClearThenPutTx(batch) ==
    [op |-> "clear", batch |-> <<>>, next |-> "put", nextBatch |-> batch]

\* store.put(packet) for every packet of the batch; the key path is `index`.
PutAll(store, batch) ==
    LET keys == {batch[i].index : i \in 1..Len(batch)}
        lastWith(n) == CHOOSE i \in 1..Len(batch) :
                          /\ batch[i].index = n
                          /\ \A j \in (i + 1)..Len(batch) : batch[j].index # n
    IN {p \in store : p.index \notin keys} \cup {batch[lastWith(n)] : n \in keys}

\* loadAllPackets: getAll(), sorted by index.
RECURSIVE SortedByIndex(_)
SortedByIndex(store) ==
    IF store = {} THEN <<>>
    ELSE LET first == CHOOSE p \in store : \A q \in store : p.index <= q.index
         IN <<first>> \o SortedByIndex(store \ {first})

\* flushWriteBuffer() up to its await: the timer is cancelled, the buffer is
\* emptied into one savePackets call.
flushWriteBuffer ==
    /\ flushTimer' = FALSE
    /\ IF writeBuffer = <<>>
       THEN UNCHANGED <<writeBuffer, idbQueue>>
       ELSE /\ writeBuffer' = <<>>
            /\ idbQueue' = Append(idbQueue, PutTx(writeBuffer))

\* A queuePacketSave that flushes once the buffer holds more than the
\* threshold.
queueFlushesAbove(packet) ==
    IF Len(writeBuffer) + 1 > FlushThreshold
    THEN /\ writeBuffer' = <<>>
         /\ flushTimer' = FALSE
         /\ idbQueue' = Append(idbQueue, PutTx(Append(writeBuffer, packet)))
    ELSE /\ writeBuffer' = Append(writeBuffer, packet)
         /\ flushTimer' = TRUE
         /\ UNCHANGED idbQueue

\* queuePacketSave(packet, onFlushed)
queuePacketSave(packet) ==
    IF Len(writeBuffer) + 1 >= FlushThreshold
    THEN /\ writeBuffer' = <<>>
         /\ flushTimer' = FALSE
         /\ idbQueue' = Append(idbQueue, PutTx(Append(writeBuffer, packet)))
    ELSE /\ writeBuffer' = Append(writeBuffer, packet)
         /\ flushTimer' = TRUE
         /\ UNCHANGED idbQueue

\* The timeout set by queuePacketSave fires: () => flushWriteBuffer().
FlushTimeout ==
    /\ flushTimer
    /\ Len(idbQueue) < MaxPending
    /\ flushWriteBuffer
    /\ UNCHANGED idbStore
    /\ UNCHANGED <<appVars, vizVars, scanVars, modalVars>>

\* The oldest transaction completes: its requests take effect, oncomplete
\* resolves its promise and the code awaiting it goes on.
TxComplete ==
    /\ idbQueue # <<>>
    /\ LET tx == Head(idbQueue)
       IN /\ idbStore' = IF tx.op = "clear" THEN {}
                         ELSE PutAll(idbStore, tx.batch)
          /\ idbQueue' =
                IF tx.next = "clear" THEN Append(Tail(idbQueue), ClearTx)
                ELSE IF tx.next = "put" /\ tx.nextBatch # <<>>
                     THEN Append(Tail(idbQueue), PutTx(tx.nextBatch))
                     ELSE Tail(idbQueue)
    /\ UNCHANGED <<writeBuffer, flushTimer>>
    /\ UNCHANGED <<appVars, vizVars, scanVars, modalVars>>

\* Local storage at page load: no schema text, or the text a schema upload
\* of an earlier session stored.
SavedTexts == {<<>>, Combine(<<FileA>>)}

Init ==
    /\ AppFresh
    /\ protoFileContent \in SavedTexts
    /\ VizIdle
    /\ ScanIdle
    /\ ModalsIdle
    /\ BufferIdle
    /\ idbStore \in {{stored[i] : i \in 1..Len(stored)} : stored \in StoredSamples}

\* A rebuild that installs the empty root and the empty map when the parse fails.
rebuildClobbering(protoText, closurePackets) ==
    LET r == BuildFromProto(protoText)
    IN /\ protoRootRef' = r.root
       /\ cmdIdToMessageMap' = r.map
       /\ packets' = IF Len(closurePackets) > 0 /\ r.success
                     THEN RedecodeAll(closurePackets, r.map, r.root)
                     ELSE packets
       /\ idbQueue' = IF Len(closurePackets) > 0 /\ r.success
                      THEN Append(idbQueue, ClearThenPutTx(packets'))
                      ELSE idbQueue
       /\ lastResult' = [op |-> "rebuild", success |-> r.success,
                         count |-> r.mappingCount, error |-> r.error]

\* rebuildFromProto(protoText) run by a closure whose `packets` is closurePackets.
rebuildFromProto(protoText, closurePackets) ==
    LET r == BuildFromProto(protoText)
    IN IF ~r.success
       THEN /\ lastResult' = [op |-> "rebuild", success |-> FALSE, count |-> 0,
                              error |-> r.error]
            /\ UNCHANGED <<protoRootRef, cmdIdToMessageMap, packets, idbQueue>>
       ELSE /\ protoRootRef' = r.root
            /\ cmdIdToMessageMap' = r.map
            /\ packets' = IF Len(closurePackets) > 0
                          THEN RedecodeAll(closurePackets, r.map, r.root)
                          ELSE packets
            /\ idbQueue' = IF Len(closurePackets) > 0
                           THEN Append(idbQueue, ClearThenPutTx(packets'))
                           ELSE idbQueue
            /\ lastResult' = [op |-> "rebuild", success |-> TRUE,
                              count |-> r.mappingCount, error |-> NoVal]

\* The mount effect "Load saved proto on mount" (first render: packets = []).
Mount ==
    /\ boot = "mount"
    /\ boot' = "restore"
    /\ IF protoFileContent # <<>>
       THEN rebuildFromProto(protoFileContent, <<>>)
       ELSE UNCHANGED <<protoRootRef, cmdIdToMessageMap, packets, lastResult,
                        idbQueue>>
    /\ UNCHANGED <<globalPacketIndexRef, cmdIdToMessageMapRef, protoFileContent,
                   eventSourceRef, openSources, isMonitoring, protoJob, jsonJob>>
    /\ UNCHANGED <<writeBuffer, flushTimer, idbStore>>
    /\ UNCHANGED <<vizVars, scanVars, modalVars>>

\* init(), step 1: loadAllPackets resolved with `stored`.
Restore(stored) ==
    /\ boot = "restore"
    /\ boot' = "status"
    /\ IF Len(stored) > 0
       THEN /\ packets' = stored
            /\ globalPacketIndexRef' = MaxStoredIndex(stored) + 1
       ELSE UNCHANGED <<packets, globalPacketIndexRef>>
    /\ UNCHANGED <<protoRootRef, cmdIdToMessageMap, cmdIdToMessageMapRef,
                   protoFileContent, eventSourceRef, openSources, isMonitoring, protoJob,
                   jsonJob, lastResult>>
    /\ UNCHANGED <<vizVars, scanVars, modalVars, storeVars>>

\* alert("Invalid URL or connection error.")
InvalidUrl ==
    [op |-> "alert", success |-> FALSE, count |-> 0, error |-> "invalid url"]

\* The EventSource objects that close() of the referenced one leaves open.
OthersOpen == IF eventSourceRef = "open" THEN openSources - 1 ELSE openSources

\* A start that replaces the reference without closing the stream it held.
startKeepsOld(valid) ==
    IF valid
    THEN /\ eventSourceRef' = "open"
         /\ openSources' = openSources + 1
         /\ isMonitoring' = TRUE
         /\ UNCHANGED lastResult
    ELSE /\ lastResult' = InvalidUrl
         /\ UNCHANGED <<eventSourceRef, openSources, isMonitoring>>

\* startMonitoring(address); `valid` tells whether new EventSource accepts the
\* URL made of the address.  The stream the reference holds is closed first and
\* stays referenced when the constructor throws.
startMonitoring(valid) ==
    IF valid
    THEN /\ eventSourceRef' = "open"
         /\ openSources' = OthersOpen + 1
         /\ isMonitoring' = TRUE
         /\ UNCHANGED lastResult
    ELSE /\ eventSourceRef' = IF eventSourceRef = "null" THEN "null" ELSE "closed"
         /\ openSources' = OthersOpen
         /\ lastResult' = InvalidUrl
         /\ UNCHANGED isMonitoring

\* init(), step 3: /api/status answered; startMonitoring when is_running.
\* The answer needs a network round trip, by which time the effects of the
\* mount render have run.
StatusCheck(running) ==
    /\ boot = "status"
    /\ EffectsCommitted
    /\ boot' = "done"
    /\ IF running
       THEN startMonitoring(TRUE)
       ELSE UNCHANGED <<eventSourceRef, openSources, isMonitoring, lastResult>>
    /\ UNCHANGED <<packets, globalPacketIndexRef, protoRootRef, cmdIdToMessageMap,
                   cmdIdToMessageMapRef, protoFileContent, protoJob, jsonJob>>
    /\ UNCHANGED <<vizVars, scanVars, modalVars, storeVars>>

\* handleStartButton while not monitoring, then handleConnect -> startMonitoring.
handleConnect ==
    /\ boot = "done"
    /\ ~isMonitoring
    /\ startMonitoring(TRUE)
    /\ UNCHANGED <<packets, globalPacketIndexRef, protoRootRef, cmdIdToMessageMap,
                   cmdIdToMessageMapRef, protoFileContent, boot, protoJob,
                   jsonJob>>
    /\ UNCHANGED <<vizVars, scanVars, modalVars, storeVars>>

\* handleConnect with an address that new EventSource rejects.
handleConnectInvalid ==
    /\ boot = "done"
    /\ ~isMonitoring
    /\ startMonitoring(FALSE)
    /\ UNCHANGED <<packets, globalPacketIndexRef, protoRootRef, cmdIdToMessageMap,
                   cmdIdToMessageMapRef, protoFileContent, boot, protoJob,
                   jsonJob>>
    /\ UNCHANGED <<vizVars, scanVars, modalVars, storeVars>>

\* handleConnect while init() waits for the answer of /api/status.
handleConnectEarly ==
    /\ boot = "status"
    /\ ~isMonitoring
    /\ startMonitoring(TRUE)
    /\ UNCHANGED <<packets, globalPacketIndexRef, protoRootRef, cmdIdToMessageMap,
                   cmdIdToMessageMapRef, protoFileContent, boot, protoJob,
                   jsonJob>>
    /\ UNCHANGED <<vizVars, scanVars, modalVars, storeVars>>

\* A stop that flips the flag and leaves the subscription alone.
stopLeavesStream ==
    /\ boot = "done"
    /\ isMonitoring
    /\ isMonitoring' = FALSE
    /\ UNCHANGED <<packets, globalPacketIndexRef, protoRootRef, cmdIdToMessageMap,
                   cmdIdToMessageMapRef, protoFileContent, eventSourceRef, openSources, boot,
                   protoJob, jsonJob, lastResult>>
    /\ UNCHANGED <<vizVars, scanVars, modalVars, storeVars>>

\* handleStartButton while monitoring -> stopMonitoring.
stopMonitoring ==
    /\ boot = "done"
    /\ isMonitoring
    /\ eventSourceRef' = "null"
    /\ openSources' = OthersOpen
    /\ isMonitoring' = FALSE
    /\ UNCHANGED <<packets, globalPacketIndexRef, protoRootRef, cmdIdToMessageMap,
                   cmdIdToMessageMapRef, protoFileContent, boot, protoJob,
                   jsonJob, lastResult>>
    /\ UNCHANGED <<vizVars, scanVars, modalVars, storeVars>>

\* alert("Connection lost or failed to connect.")
ConnectionLost ==
    [op |-> "alert", success |-> FALSE, count |-> 0, error |-> "connection lost"]

\* An error handler that leaves the stream to the browser's reconnection.
onerrorKeepsStream ==
    /\ eventSourceRef = "open"
    /\ lastResult' = ConnectionLost
    /\ UNCHANGED <<packets, globalPacketIndexRef, protoRootRef, cmdIdToMessageMap,
                   cmdIdToMessageMapRef, protoFileContent, eventSourceRef, openSources,
                   isMonitoring, boot, protoJob, jsonJob>>
    /\ UNCHANGED <<vizVars, scanVars, modalVars, storeVars>>

\* es.onerror
onerror ==
    /\ eventSourceRef = "open"
    /\ eventSourceRef' = "null"
    /\ openSources' = openSources - 1
    /\ isMonitoring' = FALSE
    /\ lastResult' = ConnectionLost
    /\ UNCHANGED <<packets, globalPacketIndexRef, protoRootRef, cmdIdToMessageMap,
                   cmdIdToMessageMapRef, protoFileContent, boot, protoJob,
                   jsonJob>>
    /\ UNCHANGED <<vizVars, scanVars, modalVars, storeVars>>

\* The packetNotify listener, for an event whose data is the JSON of `raw`.
packetNotify(raw) ==
    /\ eventSourceRef = "open"
    /\ globalPacketIndexRef' = globalPacketIndexRef + 1
    /\ IF SourceThrows(raw)
       THEN UNCHANGED <<packets, writeBuffer, flushTimer, idbQueue>>
       ELSE LET newPacket == ListenerPacket(raw, globalPacketIndexRef,
                                           protoRootRef, cmdIdToMessageMapRef)
            IN /\ packets' = Append(packets, newPacket)
               /\ queuePacketSave(newPacket)
    /\ UNCHANGED <<protoRootRef, cmdIdToMessageMap, cmdIdToMessageMapRef,
                   protoFileContent, eventSourceRef, openSources, isMonitoring, boot,
                   protoJob, jsonJob, lastResult>>
    /\ UNCHANGED idbStore
    /\ UNCHANGED <<vizVars, scanVars, modalVars>>

\* The stream delivers events while the model has room for them.
StreamRoom ==
    /\ Len(packets) < MaxPackets
    /\ globalPacketIndexRef < MaxIndex

\* The effect `cmdIdToMessageMapRef.current = cmdIdToMessageMap` runs after the
\* render that follows setCmdIdToMessageMap.
CommitEffects ==
    /\ ~EffectsCommitted
    /\ cmdIdToMessageMapRef' = cmdIdToMessageMap
    /\ UNCHANGED <<packets, globalPacketIndexRef, protoRootRef, cmdIdToMessageMap,
                   protoFileContent, eventSourceRef, openSources, isMonitoring, boot,
                   protoJob, jsonJob, lastResult>>
    /\ UNCHANGED <<vizVars, scanVars, modalVars, storeVars>>

\* JsonUploadModal.processFiles(files) starts on the .json files of a
\* selection; its onJsonUploaded is the handleUpload of the current render,
\* which closes over the state cmdIdToMessageMap.
JsonUploadBegin(files) ==
    /\ boot = "done"
    /\ ~jsonJob.active
    /\ EffectsCommitted
    /\ jsonJob' = [active |-> TRUE, map |-> cmdIdToMessageMap, files |-> files]
    /\ UNCHANGED <<packets, globalPacketIndexRef, protoRootRef, cmdIdToMessageMap,
                   cmdIdToMessageMapRef, protoFileContent, eventSourceRef, openSources,
                   isMonitoring, boot, protoJob, lastResult>>
    /\ UNCHANGED <<vizVars, scanVars, modalVars, storeVars>>

\* The handleUpload of src/src/App.tsx, which leaves the counter alone.
handleUploadKeepsCounter(data, closureMap) ==
    IF \E i \in 1..Len(data) : SourceThrows(data[i])
    THEN /\ lastResult' = [op |-> "upload", success |-> FALSE, count |-> 0,
                           error |-> "type error"]
         /\ UNCHANGED <<packets, globalPacketIndexRef, idbQueue>>
    ELSE /\ packets' = [i \in 1..Len(data) |->
                           UploadPacket(data[i], i - 1, protoRootRef, closureMap)]
         /\ idbQueue' = Append(idbQueue, ClearThenPutTx(packets'))
         /\ UNCHANGED globalPacketIndexRef
         /\ lastResult' = [op |-> "upload", success |-> TRUE,
                           count |-> Len(data), error |-> NoVal]

\* handleUpload(data) run by a closure whose cmdIdToMessageMap is closureMap.
handleUpload(data, closureMap) ==
    IF \E i \in 1..Len(data) : SourceThrows(data[i])
    THEN /\ lastResult' = [op |-> "upload", success |-> FALSE, count |-> 0,
                           error |-> "type error"]
         /\ UNCHANGED <<packets, globalPacketIndexRef, idbQueue>>
    ELSE /\ packets' = [i \in 1..Len(data) |->
                           UploadPacket(data[i], i - 1, protoRootRef, closureMap)]
         /\ idbQueue' = Append(idbQueue, ClearThenPutTx(packets'))
         /\ globalPacketIndexRef' = Len(data)
         /\ lastResult' = [op |-> "upload", success |-> TRUE,
                           count |-> Len(data), error |-> NoVal]

\* JsonUploadModal.processFiles has read its files: when at least one was an
\* array the concatenation of the arrays goes to handleUpload; the counts are
\* shown as the modal's result.
JsonUploadFinish ==
    /\ jsonJob.active
    /\ Len(idbQueue) < MaxPending
    /\ jsonJob' = NoJsonJob
    /\ LET successCount == JsonSuccessCount(jsonJob.files)
           errorCount == Len(jsonJob.files) - successCount
       IN IF successCount > 0
          THEN /\ handleUpload(CombinedData(jsonJob.files), jsonJob.map)
               /\ jsonResult' =
                     IF lastResult'.success
                     THEN [successCount |-> successCount,
                           errorCount |-> errorCount,
                           packetCount |-> lastResult'.count]
                     ELSE [successCount |-> 0, errorCount |-> successCount,
                           packetCount |-> 0]
          ELSE /\ jsonResult' = [successCount |-> 0, errorCount |-> errorCount,
                                 packetCount |-> 0]
               /\ UNCHANGED <<packets, globalPacketIndexRef, lastResult,
                              idbQueue>>
    /\ UNCHANGED <<protoRootRef, cmdIdToMessageMap, cmdIdToMessageMapRef,
                   protoFileContent, eventSourceRef, openSources, isMonitoring, boot,
                   protoJob>>
    /\ UNCHANGED <<writeBuffer, flushTimer, idbStore>>
    /\ UNCHANGED <<vizVars, scanVars, pcapJob, pcapResult>>

\* ProtoUploadModal.processFiles starts: its onProtoUploaded is the
\* rebuildFromProto of the current render, which closes over `packets`.
ProtoUploadBegin ==
    /\ boot = "done"
    /\ ~protoJob.active
    /\ EffectsCommitted
    /\ protoJob' = [active |-> TRUE, packets |-> packets]
    /\ UNCHANGED <<packets, globalPacketIndexRef, protoRootRef, cmdIdToMessageMap,
                   cmdIdToMessageMapRef, protoFileContent, eventSourceRef, openSources,
                   isMonitoring, boot, jsonJob, lastResult>>
    /\ UNCHANGED <<vizVars, scanVars, modalVars, storeVars>>

\* `results` of ProtoUploadModal.processFiles for the .proto files `files`,
\* onProtoUploaded having returned `result` when a file validated.
ProtoUploadResult(files, result) ==
    LET successCount == SuccessCount(files)
        errorCount == Len(files) - successCount
    IN IF successCount > 0
       THEN IF result.success
            THEN [successCount |-> successCount, errorCount |-> errorCount,
                  cmdIdMappings |-> result.count]
            ELSE [successCount |-> 0, errorCount |-> successCount,
                  cmdIdMappings |-> 0]
       ELSE [successCount |-> 0, errorCount |-> errorCount, cmdIdMappings |-> 0]

\* ProtoUploadModal.processFiles has read and validated `files`: the combined
\* text is stored, then handed to onProtoUploaded.
ProtoUploadFinish(files) ==
    /\ protoJob.active
    /\ Len(idbQueue) < MaxPending
    /\ protoJob' = NoProtoJob
    /\ IF SuccessCount(files) > 0
       THEN /\ protoFileContent' = Combine(files)
            /\ rebuildFromProto(Combine(files), protoJob.packets)
       ELSE UNCHANGED <<protoFileContent, protoRootRef, cmdIdToMessageMap,
                        packets, lastResult, idbQueue>>
    /\ UNCHANGED <<globalPacketIndexRef, cmdIdToMessageMapRef, eventSourceRef, openSources,
                   isMonitoring, boot, jsonJob>>
    /\ UNCHANGED <<writeBuffer, flushTimer, idbStore>>
    /\ UNCHANGED <<vizVars, scanVars, modalVars>>

\* handleClear up to its first await that waits: the state is reset, the
\* buffer flushed; clearAllPackets() follows the flush (at once when there was
\* nothing to flush).
handleClear ==
    /\ boot = "done"
    /\ Len(idbQueue) < MaxPending
    /\ packets' = <<>>
    /\ globalPacketIndexRef' = 0
    /\ flushTimer' = FALSE
    /\ writeBuffer' = <<>>
    /\ idbQueue' = IF writeBuffer = <<>> THEN Append(idbQueue, ClearTx)
                   ELSE Append(idbQueue, PutThenClearTx(writeBuffer))
    /\ UNCHANGED idbStore
    /\ UNCHANGED <<protoRootRef, cmdIdToMessageMap, cmdIdToMessageMapRef,
                   protoFileContent, eventSourceRef, openSources, isMonitoring, boot,
                   protoJob, jsonJob, lastResult>>
    /\ UNCHANGED <<vizVars, scanVars, modalVars>>

\* The page is loaded again: component state and refs start over, pending
\* callbacks of the old page are gone with its write buffer and timer, local
\* storage and the object store stay.  The transactions the old page left
\* running are completed or aborted by the browser.
Reload ==
    /\ boot = "done"
    /\ packets' = <<>>
    /\ globalPacketIndexRef' = 0
    /\ protoRootRef' = {}
    /\ cmdIdToMessageMap' = EmptyMap
    /\ cmdIdToMessageMapRef' = EmptyMap
    /\ eventSourceRef' = "null"
    /\ openSources' = 0
    /\ isMonitoring' = FALSE
    /\ boot' = "mount"
    /\ protoJob' = NoProtoJob
    /\ jsonJob' = NoJsonJob
    /\ lastResult' = NoResult
    /\ jsonResult' = NoJsonResult
    /\ UNCHANGED protoFileContent
    /\ writeBuffer' = <<>>
    /\ flushTimer' = FALSE
    /\ idbQueue' \in {<<>>, [i \in 1..Len(idbQueue) |->
                                [idbQueue[i] EXCEPT !.next = "none",
                                                    !.nextBatch = <<>>]]}
    /\ UNCHANGED idbStore
    /\ UNCHANGED <<vizVars, scanVars, pcapJob, pcapResult>>

StreamEvent == StreamRoom /\ \E raw \in StreamRecords : packetNotify(raw)
\* loadAllPackets runs in a transaction of its own, after those created before.
RestoreStep == idbQueue = <<>> /\ Restore(SortedByIndex(idbStore))
StatusStep == \E running \in BOOLEAN : StatusCheck(running)
JsonBeginStep == \E data \in Batches : JsonUploadBegin(<<JsonFile(data)>>)
ProtoFinishStep == \E files \in Selections : ProtoUploadFinish(files)

\* The persistence layer on its own: timer and transactions.
StoreNext ==
    \/ FlushTimeout
    \/ TxComplete

\* Nothing buffered and no transaction running: the persistence layer has
\* caught up with the App.
Settled == idbQueue = <<>> /\ ~flushTimer

\* In Spec, SpecSession and SpecSchema the App takes its steps on a settled
\* persistence layer; SpecPersist runs the two against each other freely.

\* One session of the page: no clear-all, no reload.
SessionNext ==
    \/ Settled /\ Mount
    \/ Settled /\ RestoreStep
    \/ Settled /\ StatusStep
    \/ Settled /\ handleConnect
    \/ Settled /\ stopMonitoring
    \/ Settled /\ onerror
    \/ Settled /\ StreamEvent
    \/ Settled /\ CommitEffects
    \/ Settled /\ JsonBeginStep
    \/ Settled /\ JsonUploadFinish
    \/ Settled /\ ProtoUploadBegin
    \/ Settled /\ ProtoFinishStep
    \/ StoreNext

Next ==
    \/ Settled /\ Mount
    \/ Settled /\ RestoreStep
    \/ Settled /\ StatusStep
    \/ Settled /\ handleConnect
    \/ Settled /\ stopMonitoring
    \/ Settled /\ onerror
    \/ Settled /\ StreamEvent
    \/ Settled /\ CommitEffects
    \/ Settled /\ JsonBeginStep
    \/ Settled /\ JsonUploadFinish
    \/ Settled /\ ProtoUploadBegin
    \/ Settled /\ ProtoFinishStep
    \/ Settled /\ handleClear
    \/ Settled /\ Reload
    \/ StoreNext

Spec == Init /\ [][Next]_vars

SpecSession == Init /\ [][SessionNext]_vars

\* The schema registry: startup, reload and schema uploads with the live
\* stream beside them; no batch import, no clear-all.
SchemaNext ==
    \/ Settled /\ Mount
    \/ Settled /\ RestoreStep
    \/ Settled /\ StatusStep
    \/ Settled /\ handleConnect
    \/ Settled /\ stopMonitoring
    \/ Settled /\ onerror
    \/ Settled /\ CommitEffects
    \/ Settled /\ StreamEvent
    \/ Settled /\ ProtoUploadBegin
    \/ Settled /\ ProtoFinishStep
    \/ Settled /\ Reload
    \/ StoreNext

SpecSchema == Init /\ [][SchemaNext]_vars

-----------------------------------------------------------------------------
\* SpecBuffer: the write buffer of packetStorage.ts under a burst of stream
\* events.  At the start the stream has delivered all but MaxBurst of the
\* packets that fill the buffer, within the 500 ms of the first one; MaxBurst
\* events follow the one that fills it.
BurstPackets(n) ==
    [i \in 1..n |-> ListenerPacket(SR1, i - 1, {}, EmptyMap)]

BufferInit ==
    /\ packets = BurstPackets(FlushThreshold - MaxBurst)
    /\ globalPacketIndexRef = FlushThreshold - MaxBurst
    /\ protoRootRef = {}
    /\ cmdIdToMessageMap = EmptyMap
    /\ cmdIdToMessageMapRef = EmptyMap
    /\ protoFileContent = <<>>
    /\ eventSourceRef = "open"
    /\ openSources = 1
    /\ isMonitoring = TRUE
    /\ boot = "done"
    /\ protoJob = NoProtoJob
    /\ jsonJob = NoJsonJob
    /\ lastResult = NoResult
    /\ VizIdle
    /\ ScanIdle
    /\ ModalsIdle
    /\ writeBuffer = packets
    /\ flushTimer = TRUE
    /\ idbQueue = <<>>
    /\ idbStore = {}

BufferEvent ==
    /\ globalPacketIndexRef < FlushThreshold + MaxBurst
    /\ Len(idbQueue) < MaxPending
    /\ packetNotify(SR1)

BufferNext ==
    \/ BufferEvent
    \/ FlushTimeout
    \/ TxComplete

\* The browser runs a timeout that is due and completes a transaction.
SpecBuffer ==
    /\ BufferInit
    /\ [][BufferNext]_vars
    /\ WF_vars(FlushTimeout)
    /\ WF_vars(TxComplete)

-----------------------------------------------------------------------------
\* SpecPersist: the App against its persistence layer: the stream is open and
\* a batch import has read its file; events, the import, schema uploads and
\* clear-all (of a collection that holds packets) interleave freely with the
\* flush timer and the transactions of the object store.
PersistInit ==
    /\ packets = <<>>
    /\ globalPacketIndexRef = 0
    /\ protoRootRef = {}
    /\ cmdIdToMessageMap = EmptyMap
    /\ cmdIdToMessageMapRef = EmptyMap
    /\ protoFileContent = <<>>
    /\ eventSourceRef = "open"
    /\ openSources = 1
    /\ isMonitoring = TRUE
    /\ boot = "done"
    /\ protoJob = NoProtoJob
    /\ \E data \in Batches :
          jsonJob = [active |-> TRUE, map |-> EmptyMap,
                     files |-> <<JsonFile(data)>>]
    /\ lastResult = NoResult
    /\ VizIdle
    /\ ScanIdle
    /\ ModalsIdle
    /\ StoreIdle

PersistNext ==
    \/ StreamEvent
    \/ CommitEffects
    \/ JsonUploadFinish
    \/ ProtoUploadBegin
    \/ ProtoFinishStep
    \/ packets # <<>> /\ handleClear
    \/ StoreNext

SpecPersist == PersistInit /\ [][PersistNext]_vars

-----------------------------------------------------------------------------
\* SpecStream: the live stream with malformed events, transport errors, start
\* and stop, and the capture upload of PcapUploadModal beside it.

\* The events of the stream: a well-formed record and one whose `source` is
\* not a string (the listener throws after it has taken an index).
LiveRecords == {SR1, SR3}

\* PcapUploadModal.processFiles(files), n of the files being capture files:
\* the check of the prop isMonitoring, the filter, and the POST of the first
\* file.
PcapUploadBegin(n) ==
    /\ boot = "done"
    /\ ~pcapJob.active
    /\ IF ~isMonitoring
       THEN /\ pcapResult' = [successCount |-> 0, errorCount |-> 1,
                              error |-> "monitoring must be active"]
            /\ UNCHANGED pcapJob
       ELSE IF n = 0
       THEN /\ pcapResult' = [successCount |-> 0, errorCount |-> 0,
                              error |-> "no capture files found"]
            /\ UNCHANGED pcapJob
       ELSE /\ pcapJob' = [active |-> TRUE, sent |-> 1, left |-> n - 1,
                           successCount |-> 0, errorCount |-> 0]
            /\ UNCHANGED pcapResult
    /\ UNCHANGED <<appVars, vizVars, scanVars, jsonResult, storeVars>>

\* uploadPcapFile returns for the POST in flight: the loop of processFiles
\* counts the answer and POSTs the next file, or ends and shows the result.
PcapResponse(ok) ==
    /\ pcapJob.active
    /\ LET s == pcapJob.successCount + (IF ok THEN 1 ELSE 0)
           e == pcapJob.errorCount + (IF ok THEN 0 ELSE 1)
       IN IF pcapJob.left > 0
          THEN /\ pcapJob' = [active |-> TRUE, sent |-> pcapJob.sent + 1,
                              left |-> pcapJob.left - 1,
                              successCount |-> s, errorCount |-> e]
               /\ UNCHANGED pcapResult
          ELSE /\ pcapJob' = NoPcapJob
               /\ pcapResult' = [successCount |-> s, errorCount |-> e,
                                 error |-> IF e > 0 THEN "upload failed"
                                           ELSE NoVal]
    /\ UNCHANGED <<appVars, vizVars, scanVars, jsonResult, storeVars>>

\* The App after its mount effects and the restore of an empty store, the
\* registry of the stored text built, /api/status not answered yet.
StreamInit ==
    /\ protoFileContent \in SavedTexts
    /\ protoRootRef = BuildFromProto(protoFileContent).root
    /\ cmdIdToMessageMap = BuildFromProto(protoFileContent).map
    /\ cmdIdToMessageMapRef = cmdIdToMessageMap
    /\ packets = <<>>
    /\ globalPacketIndexRef = 0
    /\ eventSourceRef = "null"
    /\ openSources = 0
    /\ isMonitoring = FALSE
    /\ boot = "status"
    /\ protoJob = NoProtoJob
    /\ jsonJob = NoJsonJob
    /\ lastResult = NoResult
    /\ VizIdle
    /\ ScanIdle
    /\ ModalsIdle
    /\ StoreIdle

LiveEvent == StreamRoom /\ \E raw \in LiveRecords : packetNotify(raw)
PcapBeginStep == \E n \in 0..MaxFiles : PcapUploadBegin(n)
PcapResponseStep == \E ok \in BOOLEAN : PcapResponse(ok)

StreamNext ==
    \/ StatusStep
    \/ handleConnect
    \/ stopMonitoring
    \/ onerror
    \/ LiveEvent
    \/ PcapBeginStep
    \/ PcapResponseStep
    \/ StoreNext

SpecStream == StreamInit /\ [][StreamNext]_vars

\* The subscription on its own: the stream is started by the status check, by
\* the user before or after it, with a good or a bad address, and ended by the
\* user or by a transport error, while records arrive.
SubNext ==
    \/ StatusStep
    \/ handleConnectEarly
    \/ handleConnect
    \/ handleConnectInvalid
    \/ stopMonitoring
    \/ onerror
    \/ LiveEvent
    \/ StoreNext

SpecSub == StreamInit /\ [][SubNext]_vars

-----------------------------------------------------------------------------
\* SpecImport: one batch import of every selection of ImportSelections, with
\* the live stream open beside it.
SR4 == Raw(8, NoVal, StrData("x"), NoVal, "client")

ImportRecords == {SR2, SR3, SR4}
ImportArrays == UNION {[1..n -> ImportRecords] : n \in 0..MaxBatch}
ImportFiles == {BadJson} \cup {JsonFile(data) : data \in ImportArrays}
ImportSelections == UNION {[1..n -> ImportFiles] : n \in 1..MaxFiles}

\* The App with the registry of a stored text built, the stream open and
\* JsonUploadModal.processFiles reading the files of a selection.
ImportInit ==
    /\ protoFileContent \in SavedTexts
    /\ protoRootRef = BuildFromProto(protoFileContent).root
    /\ cmdIdToMessageMap = BuildFromProto(protoFileContent).map
    /\ cmdIdToMessageMapRef = cmdIdToMessageMap
    /\ packets = <<>>
    /\ globalPacketIndexRef = 0
    /\ eventSourceRef = "open"
    /\ openSources = 1
    /\ isMonitoring = TRUE
    /\ boot = "done"
    /\ protoJob = NoProtoJob
    /\ \E files \in ImportSelections :
          jsonJob = [active |-> TRUE, map |-> cmdIdToMessageMap,
                     files |-> files]
    /\ lastResult = NoResult
    /\ VizIdle
    /\ ScanIdle
    /\ ModalsIdle
    /\ StoreIdle

ImportNext ==
    \/ JsonUploadFinish
    \/ StreamEvent
    \/ StoreNext

SpecImport == ImportInit /\ [][ImportNext]_vars

-----------------------------------------------------------------------------
\* SpecNorm: the two normalisations (packetNotify listener, handleUpload)
\* applied to every record of NormRecords under every registry of NormTexts.
NormRecords ==
    {Raw(id, name, data, bin, "server") :
        id \in {7, 8}, name \in {NoVal, "Pong"},
        data \in {NoData, StrData("x"), ObjData("o")},
        bin \in {NoVal, "b1", "bad"}}

NormBatches == UNION {[1..n -> NormRecords] : n \in 1..NormLen}

NormTexts == {<<>>, Combine(<<FileA>>), Combine(<<FileB>>)}

\* The App with the registry of a stored text built, its effects committed
\* and the stream open; no batch import, or one that is reading its files.
NormInit ==
    /\ protoFileContent \in NormTexts
    /\ protoRootRef = BuildFromProto(protoFileContent).root
    /\ cmdIdToMessageMap = BuildFromProto(protoFileContent).map
    /\ cmdIdToMessageMapRef = cmdIdToMessageMap
    /\ packets = <<>>
    /\ globalPacketIndexRef = 0
    /\ eventSourceRef = "open"
    /\ openSources = 1
    /\ isMonitoring = TRUE
    /\ boot = "done"
    /\ protoJob = NoProtoJob
    /\ \/ jsonJob = NoJsonJob
       \/ \E data \in NormBatches :
             jsonJob = [active |-> TRUE, map |-> cmdIdToMessageMap,
                        files |-> <<JsonFile(data)>>]
    /\ lastResult = NoResult
    /\ VizIdle
    /\ ScanIdle
    /\ ModalsIdle
    /\ StoreIdle

NormStream ==
    /\ ~jsonJob.active
    /\ Len(packets) < NormLen
    /\ StreamRoom
    /\ \E raw \in NormRecords : packetNotify(raw)

NormBatch == JsonUploadFinish

\* The normalisations alone: the records arrive before the flush timer fires.
NormNext ==
    \/ NormStream
    \/ NormBatch

SpecNorm == NormInit /\ [][NormNext]_vars

-----------------------------------------------------------------------------
\* Properties of the App.

\* C1: within one session and with no clear-all, the packets of the collection
\* carry pairwise distinct index values, strictly increasing in their order.
C1_IndicesStrictlyIncreasing ==
    \A i, j \in 1..Len(packets) :
        i < j => packets[i].index < packets[j].index

\* The decode of a record cannot succeed whichever name is resolved for it:
\* its bytes are malformed, or no name that the hint or the registry gives is
\* a type of the root (among them: no hint and no registry entry).
C2Case(raw, root, map) ==
    /\ raw.binary # NoVal
    /\ \/ raw.binary = "bad"
       \/ \A n \in {Lookup(map, raw.packetId), raw.packetName} \ {NoVal} :
             n \notin root

\* C2: a record with a binary payload that cannot be decoded is neither dropped
\* nor fatal: the listener appends exactly one packet for it and the batch
\* import one packet per record, with data source JSON and the inline data as
\* text, and the stream stays open for the records after it.
C2_SoftFailDecode ==
    [][/\ \A raw \in NormRecords :
             (C2Case(raw, protoRootRef, cmdIdToMessageMapRef) /\ packetNotify(raw))
                 => /\ Len(packets') = Len(packets) + 1
                    /\ SubSeq(packets', 1, Len(packets)) = packets
                    /\ packets'[Len(packets')].dataSource = "JSON"
                    /\ packets'[Len(packets')].data = FallbackText(raw.data)
                    /\ packets'[Len(packets')].binary = raw.binary
                    /\ eventSourceRef' = "open"
       /\ JsonUploadFinish
             => /\ lastResult'.success
                /\ Len(packets') = Len(CombinedData(jsonJob.files))
                /\ \A i \in 1..Len(CombinedData(jsonJob.files)) :
                      C2Case(CombinedData(jsonJob.files)[i], protoRootRef, jsonJob.map)
                          => /\ packets'[i].dataSource = "JSON"
                             /\ packets'[i].data =
                                   FallbackText(CombinedData(jsonJob.files)[i].data)
                             /\ packets'[i].binary = CombinedData(jsonJob.files)[i].binary
      ]_vars

\* A packet whose binary payload could not be decoded stands in the
\* collection with its inline text, followed by a later packet.
C2_Witness ==
    \E i \in 1..Len(packets) :
        /\ i < Len(packets)
        /\ packets[i].binary # NoVal
        /\ packets[i].dataSource = "JSON"
        /\ packets[i].data.k = "str"

\* C5: a successful rebuild shows the newly decoded text on every packet of
\* the collection that holds a binary payload, was not decoded before and
\* decodes under the new registry; it changes no packet's index; and a second
\* run of the same rebuild changes nothing.
C5_RebuildRedecodesEveryPacket ==
    [][\A files \in Selections :
          (ProtoUploadFinish(files) /\ SuccessCount(files) > 0
               /\ BuildFromProto(Combine(files)).success)
              => LET r == BuildFromProto(Combine(files))
                 IN /\ Len(packets') = Len(packets)
                    /\ \A i \in 1..Len(packets) :
                          /\ packets'[i].index = packets[i].index
                          /\ (/\ packets[i].binary # NoVal
                              /\ packets[i].dataSource = "JSON"
                              /\ CanDecode(r.root, Lookup(r.map, packets[i].id),
                                           packets[i].binary))
                                 => packets'[i].data =
                                       Decoded(Lookup(r.map, packets[i].id),
                                               packets[i].binary)
                    /\ RedecodeAll(packets', r.map, r.root) = packets'
      ]_vars

\* The registries a stored or uploaded text builds, and the empty one.
Builds ==
    {BuildFromProto(<<>>)} \cup
    {BuildFromProto(Combine(files)) :
        files \in {f \in Selections :
                      SuccessCount(f) > 0 /\ ParseOK(Combine(f))}}

RegistryOfOneBuild ==
    \E b \in Builds :
        /\ protoRootRef = b.root
        /\ cmdIdToMessageMapRef = b.map

\* C6: every stream event consults a type root and a command-id map that
\* come from the same build.
C6_ReadersSeeOneBuild ==
    [][StreamEvent => RegistryOfOneBuild]_vars

\* The texts of the model's uploads and stores that do not parse.
UnparsableTexts ==
    {t \in {Combine(files) : files \in Selections} \cup SavedTexts : ~ParseOK(t)}

\* rebuildFromProto has been called with protoText in this step.
RebuildCalledWith(protoText) ==
    IF boot = "mount"
    THEN Mount /\ protoFileContent # <<>> /\ protoText = protoFileContent
    ELSE /\ protoJob' # protoJob
         /\ \E files \in Selections :
               /\ SuccessCount(files) > 0
               /\ protoText = Combine(files)
               /\ ProtoUploadFinish(files)

\* C7: a rebuild from text that does not parse returns success = false,
\* mappingCount 0 and the parser's message, and leaves the type root, the
\* command-id map and the packet collection as they were.
C7_FailedRebuildKeepsRegistry ==
    [][\A protoText \in UnparsableTexts :
          RebuildCalledWith(protoText)
              => /\ lastResult' = [op |-> "rebuild", success |-> FALSE,
                                   count |-> 0, error |-> "parse error"]
                 /\ UNCHANGED <<protoRootRef, cmdIdToMessageMap,
                                cmdIdToMessageMapRef, packets>>
      ]_vars

\* A rebuild has just failed while a registry was built and packets were held.
C7_Witness ==
    /\ lastResult.op = "rebuild"
    /\ ~lastResult.success
    /\ protoRootRef # {}
    /\ cmdIdToMessageMap # EmptyMap
    /\ packets # <<>>

\* C8: the text stored under protoFileContent is the text the registry in use
\* was built from.
C8_PersistedTextIsLastBuilt ==
    boot # "mount" =>
        /\ BuildFromProto(protoFileContent).success
        /\ protoRootRef = BuildFromProto(protoFileContent).root
        /\ cmdIdToMessageMap = BuildFromProto(protoFileContent).map

\* What the decoder yields for a record when it uses the name `protoName`.
TextDecodedAs(raw, root, protoName) ==
    IF CanDecode(root, protoName, raw.binary)
    THEN Decoded(protoName, raw.binary)
    ELSE FallbackText(raw.data)

\* C10: for a record that carries a type-name hint and whose command id the
\* registry maps too, the listener and the batch import both decode with the
\* hint.
C10_HintBeforeRegistry ==
    [][/\ \A raw \in NormRecords :
             (/\ raw.packetName # NoVal
              /\ Lookup(cmdIdToMessageMapRef, raw.packetId) # NoVal
              /\ raw.binary # NoVal
              /\ packetNotify(raw))
                 => packets'[Len(packets')].data =
                       TextDecodedAs(raw, protoRootRef, raw.packetName)
       /\ JsonUploadFinish
             => \A i \in 1..Len(CombinedData(jsonJob.files)) :
                   (/\ CombinedData(jsonJob.files)[i].packetName # NoVal
                    /\ Lookup(jsonJob.map, CombinedData(jsonJob.files)[i].packetId) # NoVal
                    /\ CombinedData(jsonJob.files)[i].binary # NoVal)
                       => packets'[i].data =
                             TextDecodedAs(CombinedData(jsonJob.files)[i], protoRootRef,
                                           CombinedData(jsonJob.files)[i].packetName)
      ]_vars

\* The names a record resolves to: its hint and the registry's entry for its
\* command id, where present.
ResolvedNames(map, raw) == {raw.packetName, Lookup(map, raw.packetId)} \ {NoVal}

\* The packet is named by a name the record resolves to, "Unknown" when it
\* resolves to none.
NamedAsResolved(packet, map, raw) ==
    IF ResolvedNames(map, raw) = {}
    THEN packet.packetName = "Unknown"
    ELSE packet.packetName \in ResolvedNames(map, raw)

\* C11: every packet the listener appends and every packet of a batch import
\* is named by the schema type name its record resolves to, and "Unknown" when
\* the record has no hint and the registry has no entry for its command id.
C11_NameResolvedOrUnknown ==
    [][/\ \A raw \in NormRecords :
             packetNotify(raw)
                 => NamedAsResolved(packets'[Len(packets')],
                                    cmdIdToMessageMapRef, raw)
       /\ JsonUploadFinish
             => \A i \in 1..Len(CombinedData(jsonJob.files)) :
                   NamedAsResolved(packets'[i], jsonJob.map, CombinedData(jsonJob.files)[i])
      ]_vars

\* C12: no packet of the collection has the empty string as payload text.
C12_PayloadTextNeverEmpty ==
    \A i \in 1..Len(packets) : packets[i].data # EmptyText

C14_NothingAfterStop ==
    [][/\ stopMonitoring
             => /\ eventSourceRef' = "null"
                /\ ~isMonitoring'
                /\ UNCHANGED <<packets, globalPacketIndexRef>>
       /\ (eventSourceRef = "null" /\ eventSourceRef' = "null")
             => UNCHANGED <<packets, globalPacketIndexRef>>
       /\ (~isMonitoring /\ ~isMonitoring')
             => UNCHANGED <<packets, globalPacketIndexRef>>
      ]_vars

\* The stream was stopped by the user (no alert was raised) after it had
\* ingested a packet.
C14_Witness ==
    /\ boot = "done"
    /\ eventSourceRef = "null"
    /\ ~isMonitoring
    /\ lastResult = NoResult
    /\ Len(packets) > 0

\* C15: every POST of a capture file to /api/upload is issued while the live
\* stream is active, and a capture upload started while monitoring is
\* inactive reports an error, issues no POST and changes nothing else.
C15_PostOnlyWhileMonitoring ==
    [][/\ pcapJob'.sent > pcapJob.sent => isMonitoring
       /\ \A n \in 0..MaxFiles :
             (~isMonitoring /\ PcapUploadBegin(n))
                 => /\ pcapResult'.errorCount = 1
                    /\ pcapResult'.error = "monitoring must be active"
                    /\ UNCHANGED <<pcapJob, appVars>>
      ]_vars

\* The files of a selection that validateJsonFile rejects, and the number of
\* records the accepted files hold.
RejectedFiles(files) == {f \in 1..Len(files) : ~files[f].ok}
AcceptedRecordCount(files) ==
    Cardinality({<<f, i>> \in (1..Len(files)) \X (1..MaxBatch) :
                    files[f].ok /\ i <= Len(files[f].data)})

\* No record of an accepted file makes handleUpload throw.
WellFormedRecords(files) ==
    \A f \in 1..Len(files) : \A i \in 1..Len(files[f].data) :
        files[f].ok => ~SourceThrows(files[f].data[i])

\* C16: in a batch import of several files every rejected file is counted as
\* an error and the records of the accepted files are imported all the same;
\* when every file is rejected handleUpload is not called and the collection
\* and the sequence counter stay as they were.
C16_RejectedFileDoesNotAbort ==
    [][JsonUploadFinish
          => /\ RejectedFiles(jsonJob.files) = 1..Len(jsonJob.files)
                   => /\ UNCHANGED <<packets, globalPacketIndexRef, lastResult>>
                      /\ jsonResult' = [successCount |-> 0,
                                        errorCount |-> Len(jsonJob.files),
                                        packetCount |-> 0]
             /\ (/\ RejectedFiles(jsonJob.files) # 1..Len(jsonJob.files)
                 /\ WellFormedRecords(jsonJob.files))
                   => /\ Len(packets') = AcceptedRecordCount(jsonJob.files)
                      /\ jsonResult'.packetCount =
                            AcceptedRecordCount(jsonJob.files)
                      /\ jsonResult'.errorCount =
                            Cardinality(RejectedFiles(jsonJob.files))
      ]_vars

\* An import with a rejected file has brought in the records of another file.
C16_Witness ==
    /\ jsonResult.errorCount > 0
    /\ jsonResult.successCount > 0
    /\ jsonResult.packetCount > 0
    /\ Len(packets) >= jsonResult.packetCount

\* C17: a batch import whose accepted files hold the records r1..rN replaces
\* the collection by N packets, the i-th made from ri, with increasing indices,
\* reports N, and leaves the counter above every imported index, so that the
\* packet of a following stream event gets an index above all of them.
C17_ImportReplacesInOrder ==
    [][/\ (/\ JsonUploadFinish
           /\ JsonSuccessCount(jsonJob.files) > 0
           /\ WellFormedRecords(jsonJob.files))
             => LET data == CombinedData(jsonJob.files)
                IN /\ Len(packets') = Len(data)
                   /\ \A i \in 1..Len(data) :
                         /\ packets'[i].id = data[i].packetId
                         /\ packets'[i].binary = data[i].binary
                         /\ packets'[i].source = DirectionOf(data[i].source)
                         /\ packets'[i].index < globalPacketIndexRef'
                   /\ \A i, j \in 1..Len(data) :
                         i < j => packets'[i].index < packets'[j].index
                   /\ lastResult'.count = Len(data)
                   /\ jsonResult'.packetCount = Len(data)
       /\ (StreamEvent /\ Len(packets') > Len(packets))
             => \A i \in 1..Len(packets) :
                   packets[i].index < packets'[Len(packets')].index
      ]_vars

\* A stream packet stands after the packets of an import of two accepted files.
C17_Witness ==
    /\ jsonResult.successCount > 1
    /\ jsonResult.packetCount > 0
    /\ Len(packets) = jsonResult.packetCount + 1
    /\ packets[Len(packets)].index = jsonResult.packetCount

\* C18: restoring a non-empty store seeds the counter with the greatest
\* restored index plus one; clear-all empties the collection and resets the
\* counter to 0; and the index a stream event allocates is greater than the
\* index of every packet standing in the collection.
C18_CounterSeededAboveRestored ==
    [][/\ \A stored \in StoredSamples :
             (Len(stored) > 0 /\ Restore(stored))
                 => /\ packets' = stored
                    /\ globalPacketIndexRef' = MaxStoredIndex(stored) + 1
       /\ handleClear
             => /\ packets' = <<>>
                /\ globalPacketIndexRef' = 0
       /\ StreamEvent
             => \A i \in 1..Len(packets) :
                   packets[i].index < globalPacketIndexRef
      ]_vars

\* C19: when the stream is resumed at startup and a schema text is stored,
\* the registry the listener reads has been built from that text.
C19_RegistryBuiltBeforeResume ==
    [][(StatusCheck(TRUE) /\ protoFileContent # <<>>)
          => /\ BuildFromProto(protoFileContent).success
             /\ protoRootRef = BuildFromProto(protoFileContent).root
             /\ cmdIdToMessageMapRef = BuildFromProto(protoFileContent).map
      ]_vars

\* C20: normalisation never fails: a batch import with an accepted file makes
\* one packet of every record, whatever its fields are.
C20_NormalizeNeverFails ==
    [][(JsonUploadFinish /\ JsonSuccessCount(jsonJob.files) > 0)
          => /\ lastResult'.success
             /\ Len(packets') = Len(CombinedData(jsonJob.files))
      ]_vars

\* The packets handed to savePackets and not yet written, in order.
RECURSIVE HandedOver(_)
HandedOver(queue) ==
    IF queue = <<>> THEN <<>>
    ELSE (IF Head(queue).op = "put" THEN Head(queue).batch ELSE <<>>)
         \o HandedOver(Tail(queue))

\* C24: the buffer is flushed as soon as it holds FlushThreshold packets and
\* otherwise by the timer started with its first packet: between calls it
\* holds fewer than FlushThreshold packets and a timer is pending whenever it
\* is not empty; every queued packet is handed to savePackets exactly once and
\* in queue order (what was written, what was handed over and what is buffered
\* make up the queued packets, in order), and eventually (a buffer that holds
\* packets is emptied into savePackets).
C24_WriteBufferBatching ==
    /\ [](/\ Len(writeBuffer) < FlushThreshold
          /\ writeBuffer # <<>> => flushTimer
          /\ SortedByIndex(idbStore) \o HandedOver(idbQueue) \o writeBuffer
                = packets)
    /\ (writeBuffer # <<>>) ~> (writeBuffer = <<>>)

\* The burst filled the buffer: its FlushThreshold packets were handed over
\* in one batch without the timer, and the next packet waits with a new timer.
C24_Witness ==
    /\ Len(writeBuffer) = 1
    /\ flushTimer
    /\ writeBuffer[1].index = FlushThreshold
    /\ \E i \in 1..Len(idbQueue) : Len(idbQueue[i].batch) = FlushThreshold

\* C25: an index is consumed only by a packet that is appended: a stream
\* event that is skipped leaves the counter unchanged, so the indices of
\* consecutive packets appended by the stream differ by exactly 1 (the App
\* emits no envelope children).
C25_SkippedEventKeepsCounter ==
    [][\A raw \in LiveRecords :
          packetNotify(raw) =>
              /\ packets' = packets => globalPacketIndexRef' = globalPacketIndexRef
              /\ \A i \in 1..(Len(packets') - 1) :
                    packets'[i + 1].index = packets'[i].index + 1
      ]_vars

\* C26: a schema rebuild never removes packets: every packet of the
\* collection at the time the rebuild updates it, the ones that arrived while
\* the schema files were read included, is in the collection afterwards, with
\* its index.
C26_RebuildKeepsEveryPacket ==
    [][\A files \in Selections :
          ProtoUploadFinish(files) =>
              \A i \in 1..Len(packets) :
                  \E j \in 1..Len(packets') :
                      /\ packets'[j].index = packets[i].index
                      /\ packets'[j].id = packets[i].id
      ]_vars

\* C27: once no timer and no store transaction is pending, the persisted
\* store holds exactly the packets of the in-memory collection, with the same
\* indices and payloads; packets buffered before a batch import, a rebuild or
\* a clear do not come back into the store afterwards.
C27_StoreMatchesCollection ==
    Settled => idbStore = {packets[i] : i \in 1..Len(packets)}

SameNormalization(p, q) ==
    /\ p.packetName = q.packetName
    /\ p.data = q.data
    /\ p.dataSource = q.dataSource

\* C29: for the same raw record and the same registry, the batch import and
\* the packetNotify listener produce packets with the same name, the same
\* payload text and the same data source.
C29_SharedNormalization ==
    [][/\ \A raw \in NormRecords :
             packetNotify(raw)
                 => SameNormalization(packets'[Len(packets')],
                                      UploadPacket(raw, 0, protoRootRef,
                                                   cmdIdToMessageMapRef))
       /\ JsonUploadFinish
             => \A i \in 1..Len(CombinedData(jsonJob.files)) :
                   SameNormalization(packets'[i],
                                     ListenerPacket(CombinedData(jsonJob.files)[i],
                                                    0, protoRootRef, jsonJob.map))
      ]_vars

\* C30: when the JSON or the schema upload modal has processed a selection of
\* K candidate files (K > 0), the reported successCount + errorCount is K,
\* also when the combined import or build failed, and successCount is above 0
\* only if the import or build succeeded.
C30_UploadResultAccounting ==
    [][/\ (JsonUploadFinish /\ jsonJob.files # <<>>)
             => /\ jsonResult'.successCount + jsonResult'.errorCount
                      = Len(jsonJob.files)
                /\ jsonResult'.successCount > 0 => lastResult'.success
       /\ \A files \in Selections :
             ProtoUploadFinish(files)
                 => /\ ProtoUploadResult(files, lastResult').successCount
                          + ProtoUploadResult(files, lastResult').errorCount
                          = Len(files)
                    /\ ProtoUploadResult(files, lastResult').successCount > 0
                          => lastResult'.success
      ]_vars

-----------------------------------------------------------------------------
\* PacketVisualizer: listenPcapEventStream and the envelope expansion.

\* The schema text of the visualizer's samples.
VizProto ==
    <<CmdLine(1), MsgLine("UnionCmdNotify"), CmdLine(7), MsgLine("Ping"),
      CmdLine(9), MsgLine("CombatInvocationsNotify"), MsgLine("EvtBeingHitInfo"),
      MsgLine("EntityMoveInfo")>>

\* An argument type is the sequence of the tokens its name joins with "_".
Capitalized ==
    [t \in {"EVT", "BEING", "HIT", "ENTITY", "MOVE"} |->
        CASE t = "EVT" -> "Evt"
          [] t = "BEING" -> "Being"
          [] t = "HIT" -> "Hit"
          [] t = "ENTITY" -> "Entity"
          [] OTHER -> "Move"]

RECURSIVE Camel(_)
Camel(tokens) ==
    IF tokens = <<>> THEN ""
    ELSE Capitalized[Head(tokens)] \o Camel(Tail(tokens))

\* getDynamicTypeName: NoVal stands for null.  The argument is a string.
getDynamicTypeName(argType) ==
    IF Len(argType) < 2 \/ argType[1] # "CombatTypeArgument" THEN NoVal
    ELSE IF argType[2] = "COMBAT"
         THEN Camel(Tail(Tail(argType))) \o "Info"
         ELSE Camel(Tail(argType)) \o "Info"

InvHit ==
    [argumentType |-> <<"CombatTypeArgument", "COMBAT", "EVT", "BEING", "HIT">>,
     combatData |-> "ok"]
InvMove ==
    [argumentType |-> <<"CombatTypeArgument", "ENTITY", "MOVE">>,
     combatData |-> "ok"]
InvOther == [argumentType |-> <<"Other">>, combatData |-> "ok"]
\* An invocation without argumentType.
InvNoType == [argumentType |-> NoVal, combatData |-> "ok"]

\* innerObject.invokeList of an inner body decoded as CombatInvocationsNotify.
InvokeListOf(body) ==
    IF body = "hit" THEN <<InvHit>>
    ELSE IF body = "mixed" THEN <<InvMove, InvOther, InvHit>>
    ELSE IF body = "notype" THEN <<InvNoType, InvHit>>
    ELSE <<>>

\* Inner commands of an envelope: { messageId, body }.
Cmd(id, body) == [messageId |-> id, body |-> body]
CmdPing == Cmd(7, "ok")
CmdUnknown == Cmd(99, "ok")
CmdNoBody == Cmd(7, NoVal)
CmdHit == Cmd(9, "hit")
CmdMixed == Cmd(9, "mixed")
CmdNoType == Cmd(9, "notype")
VizCmds == {CmdPing, CmdUnknown, CmdNoBody, CmdHit, CmdMixed, CmdNoType}

\* Inner command lists: up to MaxCmds resolvable entries, and the pairs in
\* which one entry is of another kind.
VizCmdLists ==
    {[i \in 1..n |-> CmdPing] : n \in 1..MaxCmds}
    \cup {<<CmdPing, c>> : c \in VizCmds \ {CmdPing}}
    \cup {<<c, CmdPing>> : c \in VizCmds \ {CmdPing}}

\* The `binary` field by what its bytes decode to: nothing (field absent),
\* undecodable bytes, a message without cmdList, a message with cmdList.
NoBinary == [kind |-> "none", cmdList |-> <<>>]
BadBinary == [kind |-> "bad", cmdList |-> <<>>]
PlainBinary == [kind |-> "plain", cmdList |-> <<>>]
UnionBinary(l) == [kind |-> "union", cmdList |-> l]

\* Buffer.from(text, "base64").length of the sample bodies.
ByteLength(text) ==
    CASE text = "ok" -> 2
      [] text = "hit" -> 3
      [] text = "mixed" -> 4
      [] text = "notype" -> 5
      [] OTHER -> 1

\* An event of the stream: the server sends every sample with source "server"
\* and the length of the whole packet.
VizRaw(id, data, bin) ==
    [packetId |-> id, data |-> data, binary |-> bin, source |-> "server",
     length |-> 9]

VizEvents ==
    {VizRaw(7, InlineText("x"), NoBinary), VizRaw(7, EmptyText, PlainBinary),
     VizRaw(7, EmptyText, NoBinary), VizRaw(7, EmptyText, BadBinary),
     VizRaw(1, EmptyText, PlainBinary)}
    \cup {VizRaw(1, EmptyText, UnionBinary(l)) : l \in VizCmdLists}

StatusText(n) == [k |-> "status", a |-> n, b |-> ""]
\* JSON.stringify({ object: innerObject, raw: cmd.body })
ChildText(obj, raw) == [k |-> "child", a |-> obj, b |-> raw]

\* A pushed packet; of its `binary` the log keeps the kind.
VizPacket(idx, id, name, data, bin, src, length) ==
    [index |-> idx, packetId |-> id, packetName |-> name, data |-> data,
     binary |-> bin.kind, source |-> src, length |-> length]

\* The forEach over innerObject.invokeList, from invocation i on: the counter
\* and the pushed packets it leaves.
RECURSIVE ExpandInvocations(_, _, _, _, _)
ExpandInvocations(invokeList, i, cmd, root, st) ==
    IF i > Len(invokeList) THEN st
    ELSE IF invokeList[i].argumentType = NoVal
    THEN [st EXCEPT !.threw = TRUE]
    ELSE LET dynamicType == getDynamicTypeName(invokeList[i].argumentType)
         IN IF dynamicType = NoVal \/ dynamicType \notin root
               \/ invokeList[i].combatData = "bad"
            THEN ExpandInvocations(invokeList, i + 1, cmd, root, st)
            ELSE ExpandInvocations(invokeList, i + 1, cmd, root,
                    [st EXCEPT
                       !.pushed = Append(@,
                          VizPacket(st.g + 1, 0,
                                    "CombatInvocationsNotify - " \o dynamicType,
                                    ChildText(dynamicType, cmd.body),
                                    NoBinary, "client",
                                    ByteLength(cmd.body))),
                       !.g = @ + 1])

\* The forEach over decodedMessage.cmdList, from entry i on.  st.threw is set
\* when `Buffer.from(cmd.body, "base64")` meets an entry without body while the
\* child packet is built, or `argType.startsWith` an invocation without
\* argumentType: the exception ends the forEach.
RECURSIVE ExpandCmds(_, _, _, _, _)
ExpandCmds(cmdList, i, root, map, st) ==
    IF i > Len(cmdList) THEN st
    ELSE LET cmd == cmdList[i]
             innerName == IF Lookup(map, cmd.messageId) # NoVal
                          THEN Lookup(map, cmd.messageId) ELSE "Unknown"
             innerOK == cmd.body # NoVal /\ cmd.body # "bad" /\ innerName \in root
         IN IF innerName = "CombatInvocationsNotify" /\ innerOK
               /\ InvokeListOf(cmd.body) # <<>>
            THEN LET inv == ExpandInvocations(InvokeListOf(cmd.body), 1, cmd,
                                              root, st)
                 IN IF inv.threw THEN inv
                    ELSE ExpandCmds(cmdList, i + 1, root, map, inv)
            ELSE IF cmd.body = NoVal
                 THEN [st EXCEPT !.threw = TRUE]
                 ELSE ExpandCmds(cmdList, i + 1, root, map,
                         [st EXCEPT
                            !.pushed = Append(@,
                               VizPacket(st.g + 1, cmd.messageId, innerName,
                                         ChildText(IF innerOK THEN innerName
                                                   ELSE "{}", cmd.body),
                                         NoBinary, "client",
                                         ByteLength(cmd.body))),
                            !.g = @ + 1])

\* An expansion that pushes the decoded envelope itself before its children.
ExpandStartAdditive(g, pushed, envelope) ==
    [g |-> g + 1, pushed |-> Append(pushed, envelope), threw |-> FALSE]

\* Where the forEach starts: the envelope has taken index g and is not pushed.
ExpandStart(g, pushed, envelope) ==
    [g |-> g + 1, pushed |-> pushed, threw |-> FALSE]

\* The packetNotify listener of listenPcapEventStream for an event carrying
\* `raw`: the counter and the pushed packets it leaves.
Listen(raw, g, pushed, root, map) ==
    LET index == g
        protoName == Lookup(map, raw.packetId)
        parent(data) == VizPacket(index, raw.packetId, protoName, data,
                                  raw.binary, raw.source, raw.length)
    IN IF raw.data # EmptyText
       THEN [g |-> g + 1,
             pushed |-> Append(pushed,
                               VizPacket(index, raw.packetId, NoVal, raw.data,
                                         raw.binary, raw.source, raw.length))]
       ELSE IF raw.binary.kind = "none"
       THEN [g |-> g + 1, pushed |-> Append(pushed, parent(StatusText("-2")))]
       ELSE IF protoName = NoVal \/ protoName \notin root
               \/ raw.binary.kind = "bad"
       THEN [g |-> g + 1, pushed |-> Append(pushed, parent(StatusText("-1")))]
       ELSE IF protoName = "UnionCmdNotify" /\ raw.binary.kind = "union"
       THEN LET st == ExpandCmds(raw.binary.cmdList, 1, root, map,
                                 ExpandStart(g, pushed,
                                             parent(Decoded(protoName, "b1"))))
            IN [g |-> st.g,
                pushed |-> IF st.threw
                           THEN Append(st.pushed, parent(StatusText("-1")))
                           ELSE st.pushed]
       ELSE [g |-> g + 1,
             pushed |-> Append(pushed, parent(Decoded(protoName, "b1")))]

\* The mount effect: listenPcapEventStream() -> loadSavedProto(), subscribe.
VizMount ==
    /\ vizRender = "none"
    /\ vizRender' = "first"
    /\ vizRoot' = IF vizSavedProto # <<>> /\ ParseOK(vizSavedProto)
                  THEN MsgNames(vizSavedProto) ELSE vizRoot
    /\ vizMap' = IF vizSavedProto # <<>> /\ ParseOK(vizSavedProto)
                 THEN ScanCmdIds(vizSavedProto, 1, NoPending, EmptyMap)
                 ELSE vizMap
    /\ UNCHANGED <<vizIndex, vizPushed, vizSavedProto>>
    /\ UNCHANGED <<appVars, scanVars, modalVars, storeVars>>

\* Any state change of the component renders it again: the handlers of the
\* new render close over a new `root`, the subscribed listener over the old.
VizRerender ==
    /\ vizRender = "first"
    /\ vizRender' = "later"
    /\ UNCHANGED <<vizRoot, vizMap, vizIndex, vizPushed, vizSavedProto>>
    /\ UNCHANGED <<appVars, scanVars, modalVars, storeVars>>

\* onClickUploadProto: reader.onload stores the text and rebuilds.  The map
\* object is shared by all renders and filled in place.
VizUpload(protoText) ==
    /\ vizRender # "none"
    /\ vizSavedProto' = protoText
    /\ vizRoot' = IF ParseOK(protoText) /\ vizRender = "first"
                  THEN MsgNames(protoText) ELSE vizRoot
    /\ vizMap' = IF ParseOK(protoText)
                 THEN ScanCmdIds(protoText, 1, NoPending, EmptyMap)
                 ELSE vizMap
    /\ UNCHANGED <<vizIndex, vizPushed, vizRender>>
    /\ UNCHANGED <<appVars, scanVars, modalVars, storeVars>>

VizEvent(raw) ==
    /\ vizRender # "none"
    /\ vizIndex < MaxVizIndex
    /\ vizIndex' = Listen(raw, vizIndex, vizPushed, vizRoot, vizMap).g
    /\ vizPushed' = Listen(raw, vizIndex, vizPushed, vizRoot, vizMap).pushed
    /\ UNCHANGED <<vizRoot, vizMap, vizRender, vizSavedProto>>
    /\ UNCHANGED <<appVars, scanVars, modalVars, storeVars>>

VizTexts == {VizProto, <<BadLine>>}

VizInit ==
    /\ AppIdle
    /\ ScanIdle
    /\ ModalsIdle
    /\ StoreIdle
    /\ vizRoot = {}
    /\ vizMap = EmptyMap
    /\ vizIndex = 0
    /\ vizPushed = <<>>
    /\ vizRender = "none"
    /\ vizSavedProto \in {<<>>, VizProto}

VizEventStep == \E raw \in VizEvents : VizEvent(raw)
VizUploadStep == \E protoText \in VizTexts : VizUpload(protoText)

VizNext ==
    \/ VizMount
    \/ VizRerender
    \/ VizUploadStep
    \/ VizEventStep

SpecViz == VizInit /\ [][VizNext]_vars

-----------------------------------------------------------------------------
\* Properties of the PacketVisualizer.

\* C3: no index value is issued to two packets: the packets pushed by the
\* listener, envelope children included, carry pairwise distinct indices.
C3_NoIndexIssuedTwice ==
    \A i, j \in 1..Len(vizPushed) :
        i # j => vizPushed[i].index # vizPushed[j].index

\* An event is an envelope that decodes, and every entry of its command list
\* resolves in the registry.
EnvelopeResolves(raw) ==
    /\ raw.data = EmptyText
    /\ raw.binary.kind = "union"
    /\ Lookup(vizMap, raw.packetId) = "UnionCmdNotify"
    /\ "UnionCmdNotify" \in vizRoot
    /\ \A i \in 1..Len(raw.binary.cmdList) :
          /\ Lookup(vizMap, raw.binary.cmdList[i].messageId) # NoVal
          /\ Lookup(vizMap, raw.binary.cmdList[i].messageId) \in vizRoot

\* Every entry carries a body and is of a type other than the one that is
\* expanded a level further.
EntriesPlain(raw) ==
    \A i \in 1..Len(raw.binary.cmdList) :
        /\ raw.binary.cmdList[i].body # NoVal
        /\ Lookup(vizMap, raw.binary.cmdList[i].messageId)
              # "CombatInvocationsNotify"

C22_ChildInheritsDirection ==
    [][\A raw \in VizEvents :
          VizEvent(raw) =>
              \A i \in (Len(vizPushed) + 1)..Len(vizPushed') :
                  vizPushed'[i].data.k = "child" =>
                      /\ vizPushed'[i].source = raw.source
                      /\ vizPushed'[i].length =
                            IF vizPushed'[i].packetId = 0
                            THEN ByteLength(InvHit.combatData)
                            ELSE ByteLength(vizPushed'[i].data.b)
      ]_vars

\* What the documentation of getDynamicTypeName states: a type name for the
\* COMBAT_ arguments, null for the others (ENTITY_MOVE) and for none.
DocumentedTypeName(argType) ==
    IF argType = NoVal THEN NoVal
    ELSE IF Len(argType) < 3 \/ argType[1] # "CombatTypeArgument"
            \/ argType[2] # "COMBAT"
         THEN NoVal
         ELSE Camel(Tail(Tail(argType))) \o "Info"

\* The names of the packets due for the invocations from i on: one for each
\* invocation whose discriminator maps to a type of the registry.
RECURSIVE InvocationNames(_, _, _)
InvocationNames(invokeList, i, root) ==
    IF i > Len(invokeList) THEN <<>>
    ELSE LET t == DocumentedTypeName(invokeList[i].argumentType)
         IN (IF t # NoVal /\ t \in root /\ invokeList[i].combatData # "bad"
             THEN <<"CombatInvocationsNotify - " \o t>> ELSE <<>>)
            \o InvocationNames(invokeList, i + 1, root)

\* The names of the packets due for the inner commands from i on.
RECURSIVE ChildNames(_, _, _, _)
ChildNames(cmdList, i, root, map) ==
    IF i > Len(cmdList) THEN <<>>
    ELSE LET innerName == Lookup(map, cmdList[i].messageId)
         IN (IF innerName = "CombatInvocationsNotify"
                /\ InvokeListOf(cmdList[i].body) # <<>>
             THEN InvocationNames(InvokeListOf(cmdList[i].body), 1, root)
             ELSE <<innerName>>)
            \o ChildNames(cmdList, i + 1, root, map)

\* C23: third-level expansion skips what it cannot map: getDynamicTypeName
\* gives null for unsupported discriminators (ENTITY_MOVE) and EvtBeingHitInfo
\* for CombatTypeArgument_COMBAT_EVT_BEING_HIT; an invocation whose
\* discriminator is unmapped, missing or maps to a type absent from the
\* registry produces no packet and no error, and the other invocations, the
\* other inner commands and the parent are processed as if it were not there.
C23_UnmappedInvocationSkipped ==
    [][\A raw \in VizEvents :
          (/\ EnvelopeResolves(raw)
           /\ \A i \in 1..Len(raw.binary.cmdList) :
                 raw.binary.cmdList[i].body # NoVal
           /\ VizEvent(raw))
              => LET m == Len(vizPushed)
                     names == ChildNames(raw.binary.cmdList, 1, vizRoot, vizMap)
                 IN /\ Len(vizPushed') = m + Len(names)
                    /\ \A i \in 1..Len(names) :
                          /\ vizPushed'[m + i].data.k = "child"
                          /\ vizPushed'[m + i].packetName = names[i]
      ]_vars

====
